---- MODULE Spec2Model ----
(***************************************************************************)
(* A model of the MVG client library (src/src/mvg/mvgapi.py): the station  *)
(* identifier check, the transport adapter, the station / nearby /         *)
(* departure normalisers and the blocking wrappers around them.            *)
(*                                                                         *)
(* Strings that the code inspects character by character (station ids and  *)
(* queries) are sequences of one-character strings.  A JSON payload is a   *)
(* record saying whether it is a list and which entries it holds; an entry *)
(* is a record whose fields are the keys the upstream object carries.      *)
(***************************************************************************)
EXTENDS Integers, Sequences, FiniteSets, TLC

VARIABLES pc, call, sent, resp, out, obj, contexts, ncalls, counts

vars == <<pc, call, sent, resp, out, obj, contexts, ncalls, counts>>

(***************************************************************************)
(* Bounds of the model.                                                    *)
(***************************************************************************)
MaxArea == 6
MaxNum == 2
MaxItems == 2
MaxCalls == 2

\* MVGAPI_DEFAULT_LIMIT
MVGAPI_DEFAULT_LIMIT == 10

(***************************************************************************)
(* Strings.                                                                *)
(***************************************************************************)
DigitChars == {"0", "1", "2", "3", "4", "5", "6", "7", "8", "9"}

Whitespace == {" "}

RECURSIVE lstrip(_)
lstrip(s) ==
    IF Len(s) > 0 /\ Head(s) \in Whitespace THEN lstrip(Tail(s)) ELSE s

RECURSIVE rstrip(_)
rstrip(s) ==
    IF Len(s) > 0 /\ s[Len(s)] \in Whitespace
    THEN rstrip(SubSeq(s, 1, Len(s) - 1))
    ELSE s

\* str.strip(): the string without its leading and trailing whitespace
strip(s) == rstrip(lstrip(s))

\* the longest run of decimal digits of s that starts at position i
RECURSIVE DigitRun(_, _)
DigitRun(s, i) ==
    IF i <= Len(s) /\ s[i] \in DigitChars THEN 1 + DigitRun(s, i + 1) ELSE 0

\* the pattern de:[0-9]{2,5}:[0-9]+ matched against the whole of s
re_fullmatch(s) ==
    /\ Len(s) >= 3
    /\ SubSeq(s, 1, 3) = <<"d", "e", ":">>
    /\ \E a \in 2..5 :
        /\ DigitRun(s, 4) = a
        /\ Len(s) >= 4 + a
        /\ s[4 + a] = ":"
        /\ DigitRun(s, 5 + a) >= 1
        /\ 4 + a + DigitRun(s, 5 + a) = Len(s)

\* re.match("de:[0-9]{2,5}:[0-9]+", s): the pattern matched at the start of s;
\* whatever follows the match is not looked at
re_match(s) ==
    /\ Len(s) >= 3
    /\ SubSeq(s, 1, 3) = <<"d", "e", ":">>
    /\ \E a \in 2..5 :
        /\ DigitRun(s, 4) >= a
        /\ Len(s) >= 4 + a
        /\ s[4 + a] = ":"
        /\ DigitRun(s, 5 + a) >= 1

\* valid_station_id(station_id) with validate_existance off
valid_station_id(station_id) == re_match(station_id)

(***************************************************************************)
(* The enumerations of the module.                                         *)
(***************************************************************************)
\* Base: the two base URLs
Base == {"FIB", "ZDM"}

\* Endpoint: each endpoint's path and the parameter names it lists
Endpoint ==
    [FIB_LOCATION |-> [path |-> "/locations", params |-> <<"query">>],
     FIB_NEARBY |-> [path |-> "/station/nearby",
                     params |-> <<"latitude", "longitude">>],
     FIB_DEPARTURE |-> [path |-> "/departure",
                        params |-> <<"globalId", "limit", "offsetInMinutes">>],
     ZDM_STATION_IDS |-> [path |-> "/mvgStationGlobalIds", params |-> <<>>],
     ZDM_STATIONS |-> [path |-> "/stations", params |-> <<>>],
     ZDM_LINES |-> [path |-> "/lines", params |-> <<>>]]

\* TransportType: the members in declaration order, each with name and icon
TransportType ==
    <<[name |-> "BAHN", value |-> <<"Bahn", "mdi:train">>],
      [name |-> "SBAHN", value |-> <<"S-Bahn", "mdi:subway-variant">>],
      [name |-> "UBAHN", value |-> <<"U-Bahn", "mdi:subway">>],
      [name |-> "TRAM", value |-> <<"Tram", "mdi:tram">>],
      [name |-> "BUS", value |-> <<"Bus", "mdi:bus">>],
      [name |-> "REGIONAL_BUS", value |-> <<"Regionalbus", "mdi:bus">>],
      [name |-> "SEV", value |-> <<"SEV", "mdi:taxi">>],
      [name |-> "SCHIFF", value |-> <<"Schiff", "mdi:ferry">>]>>

TransportTypeNames == {TransportType[i].name : i \in 1..Len(TransportType)}

\* TransportType[name]: the member of that name (defined for member names only;
\* the lookup of any other name raises KeyError)
TransportTypeByName(n) ==
    TransportType[CHOOSE i \in 1..Len(TransportType) : TransportType[i].name = n]

\* all() without its exclusion of SEV
TransportType_every == [i \in 1..Len(TransportType) |-> TransportType[i].name]

\* TransportType.all(): the names of all members but SEV, in declaration order
TransportType_all ==
    LET members == SelectSeq(TransportType, LAMBDA c : c.name # "SEV")
    IN  [i \in 1..Len(members) |-> members[i].name]

(***************************************************************************)
(* Outcomes of a call: a returned value or a raised exception.  Values are *)
(* tagged so that any two outcomes can be compared.                        *)
(***************************************************************************)
NoVal == [t |-> "none", v |-> <<>>]

Return(tag, v) == [kind |-> "return", exc |-> "", val |-> [t |-> tag, v |-> v]]

ReturnNone == [kind |-> "return", exc |-> "", val |-> NoVal]

Raise(e) == [kind |-> "raise", exc |-> e, val |-> NoVal]

Pending == [kind |-> "pending", exc |-> "", val |-> NoVal]

IsPending(o) == o.kind = "pending"

IsReturn(o) == o.kind = "return"

\* the same kind of outcome with the same exception or the same value
SameOutcome(a, b) ==
    /\ a.kind = b.kind
    /\ a.exc = b.exc
    /\ a.val.t = b.val.t
    /\ a.val.v = b.val.v

IsRaise(o, e) == o.kind = "raise" /\ o.exc = e

\* the exception classes that are ValueError or derive from it
\* (json.JSONDecodeError is a subclass of ValueError)
ValueErrors == {"ValueError", "JSONDecodeError"}

\* the exceptions the parsing handlers catch: except (AssertionError, KeyError)
ParseErrors == {"AssertionError", "KeyError"}

\* the handler catching AssertionError only
CatchAssertionOnly(o) ==
    IF o.kind = "raise" /\ o.exc = "AssertionError" THEN Raise("MvgApiError") ELSE o

\* try: body  except (AssertionError, KeyError): raise MvgApiError
CatchParse(o) ==
    IF o.kind = "raise" /\ o.exc \in ParseErrors THEN Raise("MvgApiError") ELSE o

(***************************************************************************)
(* Numbers.  A timestamp in milliseconds is a JSON integer, which Python    *)
(* reads as an integer of any size; it is kept as a binary numeral: the     *)
(* sequence of its bits, most significant first, without leading zeros,     *)
(* <<>> being 0.  x / 1000 is Python's true division: the quotient rounded  *)
(* to the nearest double, ties to the even significand.                     *)
(***************************************************************************)
RECURSIVE Bits(_)
Bits(n) == IF n = 0 THEN <<>> ELSE Append(Bits(n \div 2), n % 2)

\* the numeral without its leading zeros
Normalize(b) ==
    LET ones == {i \in 1..Len(b) : b[i] = 1}
    IN  IF ones = {} THEN <<>>
        ELSE SubSeq(b, CHOOSE i \in ones : \A j \in ones : i <= j, Len(b))

Zeros(n) == [i \in 1..n |-> 0]

\* the integer hi * 2^s + lo, for lo < 2^s
Big(hi, s, lo) == Normalize(Bits(hi) \o Zeros(s - Len(Bits(lo))) \o Bits(lo))

\* b + 1
Inc(b) ==
    LET zeros == {i \in 1..Len(b) : b[i] = 0}
    IN  IF zeros = {} THEN <<1>> \o Zeros(Len(b))
        ELSE LET k == CHOOSE i \in zeros : \A j \in zeros : j <= i
             IN  SubSeq(b, 1, k - 1) \o <<1>> \o Zeros(Len(b) - k)

\* the numeral b, its length a multiple of 10, as digits to the base 1024
Digits1024(b) ==
    [j \in 1..(Len(b) \div 10) |->
        LET bit(t) == b[10 * (j - 1) + t]
        IN  512 * bit(1) + 256 * bit(2) + 128 * bit(3) + 64 * bit(4) + 32 * bit(5)
            + 16 * bit(6) + 8 * bit(7) + 4 * bit(8) + 2 * bit(9) + bit(10)]

\* the division by 1000 of a numeral to the base 1024, digit by digit from
\* digit i on: as many quotient digits as the numeral has, and the remainder
RECURSIVE LongDivision(_, _, _, _)
LongDivision(digits, i, rem, acc) ==
    IF i > Len(digits) THEN [quot |-> acc, rem |-> rem]
    ELSE LongDivision(digits, i + 1, (1024 * rem + digits[i]) % 1000,
                      Append(acc, (1024 * rem + digits[i]) \div 1000))

\* the quotient and the remainder of b by 1000; the quotient has the bits of
\* b and leading zeros
DivMod1000(b) ==
    LET padded == Zeros((10 - (Len(b) % 10)) % 10) \o b
        d == LongDivision(Digits1024(padded), 1, 0, <<>>)
    IN  [quot |-> [i \in 1..Len(padded) |->
                     (d.quot[(i - 1) \div 10 + 1] \div 2^(9 - ((i - 1) % 10))) % 2],
         rem |-> d.rem]

\* the bits of the significand of a float (sys.float_info.mant_dig)
DoubleBits == 53

\* x / 1000 for an integer x >= 0: the float nearest to the quotient, as its
\* significand sig and the number frac of bits of sig behind the binary point
\* (-frac zeros follow sig when frac is negative)
truediv(x) ==
    LET d == DivMod1000(x \o Zeros(DoubleBits + 12))
        ones == {i \in 1..Len(d.quot) : d.quot[i] = 1}
    IN  IF ones = {} THEN [sig |-> <<>>, frac |-> 0]
        ELSE LET first == CHOOSE i \in ones : \A j \in ones : i <= j
                 last == first + DoubleBits - 1
                 kept == SubSeq(d.quot, first, last)
                 sticky == d.rem # 0 \/ \E i \in (last + 2)..Len(d.quot) : d.quot[i] = 1
                 up == d.quot[last + 1] = 1 /\ (sticky \/ d.quot[last] = 1)
             IN  [sig |-> IF up THEN Inc(kept) ELSE kept,
                  frac |-> last - (Len(d.quot) - (DoubleBits + 12))]

\* int(f) for a float f >= 0: the integer part
int(f) ==
    IF f.sig = <<>> THEN <<>>
    ELSE IF f.frac <= 0 THEN f.sig \o Zeros(-f.frac)
    ELSE IF f.frac >= Len(f.sig) THEN <<>>
    ELSE SubSeq(f.sig, 1, Len(f.sig) - f.frac)

(***************************************************************************)
(* The upstream service as the transport adapter sees it: one GET either   *)
(* fails at the network level or delivers a response with a status, a      *)
(* content type and a body, which is JSON text or not.                     *)
(***************************************************************************)
\* failures of session.get(): connection/DNS failure, connection reset, timeout
NetFailures == {"ClientConnectorError", "ServerDisconnectedError", "TimeoutError"}

\* the failures that are aiohttp.ClientError; asyncio.TimeoutError (the
\* client's total timeout) is not one
ClientErrors == {"ClientConnectorError", "ServerDisconnectedError"}

Statuses == {200, 500}

ContentTypes == {"application/json", "text/html"}

\* a body: JSON text or not; if JSON, a list of entries or another JSON value
Undecodable == [decodable |-> FALSE, islist |-> FALSE, items |-> <<>>]

NonList == [decodable |-> TRUE, islist |-> FALSE, items |-> <<>>]

JsonList(items) == [decodable |-> TRUE, islist |-> TRUE, items |-> items]

SeqsUpTo(S, n) == UNION {[1..k -> S] : k \in 0..n}

IdUniversitaet == <<"d", "e", ":", "0", "9", "1", "6", "2", ":", "7", "0">>

IdHauptbahnhof == <<"d", "e", ":", "0", "9", "1", "6", "2", ":", "6">>

\* entries of a location search (/locations)
LocationEntries ==
    {[type |-> "STATION", globalId |-> IdUniversitaet, name |-> "Universitaet",
      place |-> "Muenchen", latitude |-> 48, longitude |-> 11],
     [type |-> "ADDRESS", name |-> "Universitaetsstrasse", place |-> "Augsburg",
      latitude |-> 47, longitude |-> 10],
     [type |-> "STATION", globalId |-> IdHauptbahnhof, name |-> "Hauptbahnhof",
      place |-> "Muenchen", latitude |-> 49, longitude |-> 12],
     [type |-> "STATION", globalId |-> IdHauptbahnhof, place |-> "Muenchen",
      latitude |-> 49, longitude |-> 12],
     [scalar |-> "x"]}

\* entries of a nearby search (/station/nearby)
NearbyEntries ==
    {[globalId |-> IdUniversitaet, name |-> "Universitaet", place |-> "Muenchen",
      latitude |-> 48, longitude |-> 11, transportTypes |-> <<"UBAHN", "BUS">>],
     [globalId |-> IdHauptbahnhof, name |-> "Hauptbahnhof", place |-> "Muenchen",
      latitude |-> 49, longitude |-> 12, transportTypes |-> <<"TRAM">>],
     [globalId |-> IdHauptbahnhof, name |-> "Hauptbahnhof", place |-> "Muenchen",
      latitude |-> 49, longitude |-> 12, transportTypes |-> <<"SEV">>],
     [globalId |-> IdHauptbahnhof, name |-> "Hauptbahnhof", place |-> "Muenchen",
      latitude |-> 49, longitude |-> 12, transportTypes |-> <<"BUS", "RUFTAXI">>],
     [globalId |-> IdHauptbahnhof, name |-> "Hauptbahnhof", place |-> "Muenchen",
      latitude |-> 49, longitude |-> 12]}

\* the JSON object e without its member k
Without(e, k) == [f \in DOMAIN e \ {k} |-> e[f]]

\* the members departures_async reads from an entry of the departure board
DepartureFields ==
    {"realtimeDepartureTime", "plannedDepartureTime", "label", "destination",
     "transportType", "cancelled", "messages"}

DepartureU3 ==
    [realtimeDepartureTime |-> Bits(120999), plannedDepartureTime |-> Bits(60000),
     label |-> "U3", destination |-> "Fuerstenried West",
     transportType |-> "UBAHN", cancelled |-> FALSE, messages |-> <<>>]

\* entries of a departure board (/departure); times in milliseconds
DepartureEntries ==
    {DepartureU3,
     [realtimeDepartureTime |-> Bits(61000), plannedDepartureTime |-> Bits(61000),
      label |-> "154", destination |-> "Bruno-Walter-Ring",
      transportType |-> "BUS", cancelled |-> TRUE, messages |-> <<"Umleitung">>],
     [realtimeDepartureTime |-> Bits(61000), plannedDepartureTime |-> Bits(61000),
      label |-> "T1", destination |-> "Pasing",
      transportType |-> "RUFTAXI", cancelled |-> FALSE, messages |-> <<>>],
     [realtimeDepartureTime |-> Bits(61000), plannedDepartureTime |-> Bits(61000),
      label |-> "U6", destination |-> "Garching",
      transportType |-> "UBAHN", messages |-> <<>>]}

\* entries of the station directory (/stations) and the line directory (/lines)
StationEntries ==
    {[id |-> IdUniversitaet, name |-> "Universitaet"],
     [id |-> IdHauptbahnhof, name |-> "Hauptbahnhof"]}

LineEntries == {[label |-> "U3", product |-> "UBAHN"], [label |-> "154", product |-> "BUS"]}

\* entries of the station id list (/mvgStationGlobalIds)
StationIdEntries == {IdUniversitaet, IdHauptbahnhof}

EntriesOf(ep) ==
    CASE ep = "FIB_LOCATION" -> LocationEntries
      [] ep = "FIB_NEARBY" -> NearbyEntries
      [] ep = "FIB_DEPARTURE" -> DepartureEntries
      [] ep = "ZDM_STATIONS" -> StationEntries
      [] ep = "ZDM_LINES" -> LineEntries
      [] ep = "ZDM_STATION_IDS" -> StationIdEntries

\* the bodies an endpoint may deliver, lists of at most n entries
BodiesOf(ep, n) ==
    {Undecodable, NonList} \cup {JsonList(items) : items \in SeqsUpTo(EntriesOf(ep), n)}

NoResp == [net |-> "none", status |-> 0, ctype |-> "", body |-> Undecodable]

Failure(f) == [net |-> f, status |-> 0, ctype |-> "", body |-> Undecodable]

\* everything one GET on the endpoint may come back with
ResponsesOf(ep, n) ==
    {Failure(f) : f \in NetFailures}
    \cup {[net |-> "ok", status |-> s, ctype |-> t, body |-> b] :
            s \in Statuses, t \in ContentTypes, b \in BodiesOf(ep, n)}

\* __api without its check of the content type
api_without_content_type_check(r) ==
    IF r.net # "ok"
    THEN IF r.net \in ClientErrors THEN Raise("MvgApiError") ELSE Raise(r.net)
    ELSE IF r.status # 200 THEN Raise("MvgApiError")
    ELSE IF ~r.body.decodable THEN Raise("JSONDecodeError")
    ELSE Return("json", r.body)

\* MvgApi.__api from the moment the GET is answered: the decoded JSON value,
\* MvgApiError, or an exception the handler does not catch
__api(r) ==
    IF r.net # "ok"
    THEN IF r.net \in ClientErrors THEN Raise("MvgApiError") ELSE Raise(r.net)
    ELSE IF r.status # 200 THEN Raise("MvgApiError")
    ELSE IF r.ctype # "application/json" THEN Raise("MvgApiError")
    ELSE IF ~r.body.decodable THEN Raise("JSONDecodeError")
    ELSE Return("json", r.body)

(***************************************************************************)
(* Reading the decoded payload.                                            *)
(***************************************************************************)
IsDict(e) == "scalar" \notin DOMAIN e

\* e[k]: TypeError when e is no object, KeyError when it lacks the key
Subscript(e, k) ==
    IF ~IsDict(e) THEN Raise("TypeError")
    ELSE IF k \notin DOMAIN e THEN Raise("KeyError")
    ELSE Return("field", <<>>)

\* the first exception among the outcomes, in evaluation order
RECURSIVE FirstRaise(_)
FirstRaise(os) ==
    IF os = <<>> THEN ReturnNone
    ELSE IF Head(os).kind = "raise" THEN Head(os)
    ELSE FirstRaise(Tail(os))

\* TransportType[n]: KeyError when n names no member
EnumLookup(n) ==
    IF n \in TransportTypeNames THEN Return("field", <<>>) ELSE Raise("KeyError")

\* the conversion done by integer division: ms // 1000
MsFloorDiv(ms) == Normalize(DivMod1000(ms).quot)

\* int(ms / 1000) for a timestamp ms >= 0
MsToSeconds(ms) == int(truediv(ms))

\* the loop of station_async over the locations, from entry i on
RECURSIVE FirstStation(_, _)
FirstStation(result, i) ==
    IF i > Len(result) THEN ReturnNone
    ELSE LET location == result[i]
             t == Subscript(location, "type")
         IN  IF t.kind = "raise" THEN t
             ELSE IF location.type # "STATION" THEN FirstStation(result, i + 1)
             ELSE LET e == FirstRaise(<<Subscript(location, "globalId"),
                                        Subscript(location, "name"),
                                        Subscript(location, "place"),
                                        Subscript(result[1], "latitude"),
                                        Subscript(result[1], "longitude")>>)
                  IN  IF e.kind = "raise" THEN e
                      ELSE Return("station",
                                  [id |-> location.globalId,
                                   name |-> location.name,
                                   place |-> location.place,
                                   latitude |-> result[1].latitude,
                                   longitude |-> result[1].longitude])

\* station_async taking the id of the record from the upstream entry also when
\* the query is a station id
station_async_upstream_id(query, r) ==
    LET q == strip(query)
        a == __api(r)
    IN  CatchParse(
            IF a.kind = "raise" THEN a
            ELSE IF ~a.val.v.islist THEN Raise("AssertionError")
            ELSE LET result == a.val.v.items
                 IN  IF Len(result) = 0 THEN ReturnNone
                     ELSE IF valid_station_id(q)
                     THEN LET e == FirstRaise(<<Subscript(result[1], "globalId"),
                                                Subscript(result[1], "name"),
                                                Subscript(result[1], "place"),
                                                Subscript(result[1], "latitude"),
                                                Subscript(result[1], "longitude")>>)
                          IN  IF e.kind = "raise" THEN e
                              ELSE Return("station",
                                          [id |-> result[1].globalId,
                                           name |-> result[1].name,
                                           place |-> result[1].place,
                                           latitude |-> result[1].latitude,
                                           longitude |-> result[1].longitude])
                     ELSE FirstStation(result, 1))

\* station_async(query) once its request is answered by r
station_async(query, r) ==
    LET q == strip(query)
        a == __api(r)
    IN  CatchParse(
            IF a.kind = "raise" THEN a
            ELSE IF ~a.val.v.islist THEN Raise("AssertionError")
            ELSE LET result == a.val.v.items
                 IN  IF Len(result) = 0 THEN ReturnNone
                     ELSE IF valid_station_id(q)
                     THEN LET e == FirstRaise(<<Subscript(result[1], "name"),
                                                Subscript(result[1], "place"),
                                                Subscript(result[1], "latitude"),
                                                Subscript(result[1], "longitude")>>)
                          IN  IF e.kind = "raise" THEN e
                              ELSE Return("station",
                                          [id |-> strip(q),
                                           name |-> result[1].name,
                                           place |-> result[1].place,
                                           latitude |-> result[1].latitude,
                                           longitude |-> result[1].longitude])
                     ELSE FirstStation(result, 1))

\* the filter looking at the first requested type only
FirstTypeIn(query_types, location_types) ==
    /\ Len(query_types) > 0
    /\ \E j \in 1..Len(location_types) : query_types[1] = location_types[j]

\* any(query_type in location_transport_types for query_type in query types)
AnyTypeIn(query_types, location_types) ==
    \E i \in 1..Len(query_types) :
        \E j \in 1..Len(location_types) : query_types[i] = location_types[j]

TypeDisplayName(n) == TransportTypeByName(n).value[1]

TypeIcon(n) == TransportTypeByName(n).value[2]

\* [TransportType[t].value[0] for t in location_transport_types]
DisplayNames(names) == [j \in 1..Len(names) |-> TypeDisplayName(names[j])]

\* the loop of nearby_multi_async over the locations, from entry i on, with the
\* stations collected so far
RECURSIVE NearbyLoop(_, _, _, _)
NearbyLoop(result, query_types, i, acc) ==
    IF i > Len(result) THEN Return("stations", acc)
    ELSE LET location == result[i]
             t == Subscript(location, "transportTypes")
         IN  IF t.kind = "raise" THEN t
             ELSE IF ~AnyTypeIn(query_types, location.transportTypes)
             THEN NearbyLoop(result, query_types, i + 1, acc)
             ELSE LET e == FirstRaise(
                             <<Subscript(location, "globalId"),
                               Subscript(location, "name"),
                               Subscript(location, "place"),
                               Subscript(result[1], "latitude"),
                               Subscript(result[1], "longitude")>>
                             \o [j \in 1..Len(location.transportTypes) |->
                                    EnumLookup(location.transportTypes[j])])
                  IN  IF e.kind = "raise" THEN e
                      ELSE NearbyLoop(result, query_types, i + 1,
                             Append(acc,
                               [id |-> location.globalId,
                                name |-> location.name,
                                place |-> location.place,
                                latitude |-> result[1].latitude,
                                longitude |-> result[1].longitude,
                                types |-> DisplayNames(location.transportTypes)]))

\* the default filter made of every member of the enumeration
TypesOrEveryMember(types) ==
    IF types.given THEN types.list
    ELSE [i \in 1..Len(TransportType) |-> TransportType[i].name]

\* transport_types, or TransportType.all() when the caller passed None
TypesOrAll(types) == IF types.given THEN types.list ELSE TransportType_all

\* the limit applied as a number of stations to drop from the end
TruncateFromEnd(stations, limit) ==
    IF limit <= 0 THEN stations
    ELSE SubSeq(stations, 1, IF limit < Len(stations) THEN Len(stations) - limit ELSE 0)

\* return_stations, or return_stations[:limit] when limit is not negative
Truncate(stations, limit) ==
    IF limit < 0 THEN stations
    ELSE SubSeq(stations, 1, IF limit < Len(stations) THEN limit ELSE Len(stations))

\* nearby_multi_async(latitude, longitude, transport_types, limit) once its
\* request is answered by r
nearby_multi_async(types, limit, r) ==
    LET a == __api(r)
    IN  CatchParse(
            IF a.kind = "raise" THEN a
            ELSE IF ~a.val.v.islist THEN Raise("AssertionError")
            ELSE LET found == NearbyLoop(a.val.v.items, TypesOrAll(types), 1, <<>>)
                 IN  IF found.kind = "raise" THEN found
                     ELSE Return("stations", Truncate(found.val.v, limit)))

\* nearby_async taking the first station without looking whether there is one
nearby_async_unchecked(types, r) ==
    LET stations == nearby_multi_async(types, 1, r)
    IN  IF stations.kind = "raise" THEN stations
        ELSE IF Len(stations.val.v) = 0 THEN Raise("IndexError")
        ELSE Return("station", stations.val.v[1])

\* nearby_async(latitude, longitude, transport_types) once its request is
\* answered by r
nearby_async(types, r) ==
    LET stations == nearby_multi_async(types, 1, r)
    IN  IF stations.kind = "raise" THEN stations
        ELSE IF Len(stations.val.v) = 0 THEN ReturnNone
        ELSE Return("station", stations.val.v[1])

\* the loop leaving out the departures that are cancelled
DepartureLoopWithoutCancelled(result, i, acc) ==
    LET rest == SubSeq(result, i, Len(result))
        bad(departure) ==
            \/ \E f \in DepartureFields : Subscript(departure, f).kind = "raise"
            \/ EnumLookup(departure.transportType).kind = "raise"
        kept == SelectSeq(rest, LAMBDA departure : ~departure.cancelled)
    IN  IF \E j \in 1..Len(rest) : bad(rest[j]) THEN Raise("KeyError")
        ELSE Return("departures",
                    acc \o [j \in 1..Len(kept) |->
                              [time |-> MsToSeconds(kept[j].realtimeDepartureTime),
                               planned |-> MsToSeconds(kept[j].plannedDepartureTime),
                               line |-> kept[j].label,
                               destination |-> kept[j].destination,
                               type |-> TypeDisplayName(kept[j].transportType),
                               icon |-> TypeIcon(kept[j].transportType),
                               cancelled |-> kept[j].cancelled,
                               messages |-> kept[j].messages]])

\* the loop of departures_async over the entries, from entry i on
RECURSIVE DepartureLoop(_, _, _)
DepartureLoop(result, i, acc) ==
    IF i > Len(result) THEN Return("departures", acc)
    ELSE LET departure == result[i]
             e == FirstRaise(<<Subscript(departure, "realtimeDepartureTime"),
                               Subscript(departure, "plannedDepartureTime"),
                               Subscript(departure, "label"),
                               Subscript(departure, "destination"),
                               Subscript(departure, "transportType")>>)
             f == IF e.kind = "raise" THEN e
                  ELSE FirstRaise(<<EnumLookup(departure.transportType),
                                    Subscript(departure, "cancelled"),
                                    Subscript(departure, "messages")>>)
         IN  IF f.kind = "raise" THEN f
             ELSE DepartureLoop(result, i + 1,
                    Append(acc,
                      [time |-> MsToSeconds(departure.realtimeDepartureTime),
                       planned |-> MsToSeconds(departure.plannedDepartureTime),
                       line |-> departure.label,
                       destination |-> departure.destination,
                       type |-> TypeDisplayName(departure.transportType),
                       icon |-> TypeIcon(departure.transportType),
                       cancelled |-> departure.cancelled,
                       messages |-> departure.messages]))

\* departures_async(station_id, ...) once its request is answered by r
departures_async(r) ==
    LET a == __api(r)
    IN  CatchParse(
            IF a.kind = "raise" THEN a
            ELSE IF ~a.val.v.islist THEN Raise("AssertionError")
            ELSE DepartureLoop(a.val.v.items, 1, <<>>))

\* stations_async() once its request is answered by r
stations_async(r) ==
    LET a == __api(r)
    IN  CatchParse(
            IF a.kind = "raise" THEN a
            ELSE IF ~a.val.v.islist THEN Raise("AssertionError")
            ELSE Return("json", a.val.v.items))

\* lines_async() once its request is answered by r
lines_async(r) ==
    LET a == __api(r)
    IN  CatchParse(
            IF a.kind = "raise" THEN a
            ELSE IF ~a.val.v.islist THEN Raise("AssertionError")
            ELSE Return("json", a.val.v.items))

\* the characters of the model's strings in the order of their code points
CodePointOrder ==
    <<" ", "0", "1", "2", "3", "4", "5", "6", "7", "8", "9", ":", "U", "d", "e",
      "i", "n", "x">>

ord(ch) == CHOOSE i \in 1..Len(CodePointOrder) : CodePointOrder[i] = ch

\* a < b for strings: at the first position where they differ, or a is a
\* proper prefix of b
StrLess(a, b) ==
    \E i \in 1..(Len(b)) :
        /\ \A j \in 1..(i - 1) : j <= Len(a) /\ a[j] = b[j]
        /\ i > Len(a) \/ (i <= Len(a) /\ ord(a[i]) < ord(b[i]))
        /\ i - 1 <= Len(a)

\* sorted(ids): the ids in ascending order (insertion from the left keeps the
\* order of equal ids)
RECURSIVE sorted(_)
sorted(ids) ==
    IF ids = <<>> THEN <<>>
    ELSE LET rest == sorted(SubSeq(ids, 1, Len(ids) - 1))
             x == ids[Len(ids)]
             before == SelectSeq(rest, LAMBDA y : ~StrLess(x, y))
             after == SelectSeq(rest, LAMBDA y : StrLess(x, y))
         IN  before \o <<x>> \o after

\* station_ids_async() once its request is answered by r
station_ids_async(r) ==
    LET a == __api(r)
    IN  CatchParse(
            IF a.kind = "raise" THEN a
            ELSE IF ~a.val.v.islist THEN Raise("AssertionError")
            ELSE Return("ids", sorted(a.val.v.items)))

\* the part of valid_station_id(station_id, True) that follows the format
\* check, once its request for the id list is answered by r
station_id_exists(station_id, r) ==
    LET a == __api(r)
    IN  CatchParse(
            IF a.kind = "raise" THEN a
            ELSE IF ~a.val.v.islist THEN Raise("AssertionError")
            ELSE Return("bool",
                        \E i \in 1..Len(a.val.v.items) : a.val.v.items[i] = station_id))

(***************************************************************************)
(* Calls.  A call names the operation, says whether the caller is inside a *)
(* running event loop, and carries the arguments.                          *)
(***************************************************************************)
AsyncOps ==
    {"station_async", "nearby_async", "nearby_multi_async", "departures_async",
     "stations_async", "lines_async", "station_ids_async"}

BlockingOps ==
    {"station", "nearby", "nearby_multi", "departures", "stations", "lines",
     "__init__", "valid_station_id"}

NoTypes == [given |-> FALSE, list |-> <<>>]

Types(l) == [given |-> TRUE, list |-> l]

MkCall(op, inloop, query, validate, types, limit, offset, at) ==
    [op |-> op, inloop |-> inloop, query |-> query, validate |-> validate,
     types |-> types, limit |-> limit, offset |-> offset,
     latitude |-> at[1], longitude |-> at[2]]

NoCall == MkCall("", FALSE, <<>>, FALSE, NoTypes, 0, 0, <<0, 0>>)

\* the coroutine a blocking operation hands to asyncio.run
Coroutine(op) ==
    CASE op = "station" -> "station_async"
      [] op = "__init__" -> "station_async"
      [] op = "nearby" -> "nearby_async"
      [] op = "nearby_multi" -> "nearby_multi_async"
      [] op = "departures" -> "departures_async"
      [] op = "stations" -> "stations_async"
      [] op = "lines" -> "stations_async"
      [] op = "valid_station_id" -> "__api"
      [] OTHER -> op

\* the arguments the coroutine is created with
CoroutineCall(k, o) ==
    CASE k.op = "__init__" -> [k EXCEPT !.query = strip(k.query)]
      [] k.op = "departures" -> [k EXCEPT !.query = o.station_id]
      [] OTHER -> k

(***************************************************************************)
(* Requests: query parameters are null, a string or a number.              *)
(***************************************************************************)
Null == [t |-> "null", s |-> <<>>, n |-> 0]

Str(s) == [t |-> "str", s |-> s, n |-> 0]

Num(n) == [t |-> "num", s |-> <<>>, n |-> n]

\* dict.fromkeys(names): every listed name with the value None
fromkeys(names) == [key \in {names[i] : i \in 1..Len(names)} |-> Null]

\* d.update(e)
update(d, e) ==
    [key \in DOMAIN d \cup DOMAIN e |-> IF key \in DOMAIN e THEN e[key] ELSE d[key]]

\* the names joined with semicolons
join_with_semicolons(names) ==
    [i \in 1..(2 * Len(names) - 1) |->
        IF i % 2 = 1 THEN names[(i + 1) \div 2] ELSE ";"]

\* ",".join(names)
RECURSIVE join(_)
join(names) ==
    IF names = <<>> THEN <<>>
    ELSE IF Len(names) = 1 THEN names
    ELSE <<Head(names), ",">> \o join(Tail(names))

\* args=None: no query parameters
NoArgs == [key \in {} |-> Null]

\* the GET request a coroutine issues
Request(aop, k) ==
    CASE aop = "station_async" ->
           [base |-> "FIB", endpoint |-> "FIB_LOCATION",
            args |-> update(fromkeys(Endpoint.FIB_LOCATION.params),
                            [query |-> Str(strip(strip(k.query)))])]
      [] aop \in {"nearby_async", "nearby_multi_async"} ->
           [base |-> "FIB", endpoint |-> "FIB_NEARBY",
            args |-> update(fromkeys(Endpoint.FIB_NEARBY.params),
                            [latitude |-> Num(k.latitude),
                             longitude |-> Num(k.longitude)])]
      [] aop = "departures_async" ->
           [base |-> "FIB", endpoint |-> "FIB_DEPARTURE",
            args |-> update(update(fromkeys(Endpoint.FIB_LOCATION.params),
                                   [globalId |-> Str(k.query),
                                    offsetInMinutes |-> Num(k.offset),
                                    limit |-> Num(k.limit)]),
                            [transportTypes |-> Str(join(TypesOrAll(k.types)))])]
      [] aop = "stations_async" ->
           [base |-> "ZDM", endpoint |-> "ZDM_STATIONS", args |-> NoArgs]
      [] aop = "lines_async" ->
           [base |-> "ZDM", endpoint |-> "ZDM_LINES", args |-> NoArgs]
      [] aop \in {"__api", "station_ids_async"} ->
           [base |-> "ZDM", endpoint |-> "ZDM_STATION_IDS", args |-> NoArgs]

\* what a coroutine does before its request: departures_async checks the format
\* of the station id (the result of station_id.strip() is dropped)
Validate(aop, k) ==
    IF aop = "departures_async" /\ ~valid_station_id(k.query)
    THEN Raise("ValueError")
    ELSE Pending

\* what a coroutine returns or raises once its request is answered by r
AsyncResult(aop, k, r) ==
    CASE aop = "station_async" -> station_async(k.query, r)
      [] aop = "nearby_async" -> nearby_async(k.types, r)
      [] aop = "nearby_multi_async" -> nearby_multi_async(k.types, k.limit, r)
      [] aop = "departures_async" -> departures_async(r)
      [] aop = "stations_async" -> stations_async(r)
      [] aop = "lines_async" -> lines_async(r)
      [] aop = "__api" -> station_id_exists(k.query, r)
      [] aop = "station_ids_async" -> station_ids_async(r)

\* what a blocking operation does before it reaches asyncio.run: its outcome,
\* or Pending when it reaches asyncio.run
BeforeRun(k, o) ==
    IF k.op = "__init__" /\ ~valid_station_id(strip(k.query))
    THEN Raise("ValueError")
    ELSE IF k.op = "valid_station_id" /\ ~valid_station_id(k.query)
    THEN Return("bool", FALSE)
    ELSE IF k.op = "valid_station_id" /\ ~k.validate
    THEN Return("bool", TRUE)
    ELSE IF k.op = "departures" /\ ~o.has_station_id
    THEN Raise("AttributeError")
    ELSE Pending

\* asyncio.run(coroutine) refuses to start inside a running event loop
asyncio_run(k) == IF k.inloop THEN Raise("RuntimeError") ELSE Pending

\* the part of a call that runs before any request: its outcome, or Pending
\* when the call goes on to issue its request
Start(k, o) ==
    IF k.op \in BlockingOps /\ ~IsPending(BeforeRun(k, o)) THEN BeforeRun(k, o)
    ELSE IF k.op \in BlockingOps /\ ~IsPending(asyncio_run(k)) THEN asyncio_run(k)
    ELSE Validate(Coroutine(k.op), CoroutineCall(k, o))

\* asyncio.run created a fresh event loop for the call
RunsFreshLoop(k, o) ==
    k.op \in BlockingOps /\ IsPending(BeforeRun(k, o)) /\ IsPending(asyncio_run(k))

\* the outcome of the call once its request is answered by r
Finish(k, o, r) ==
    LET res == AsyncResult(Coroutine(k.op), CoroutineCall(k, o), r)
    IN  IF k.op = "__init__" /\ res.kind = "return" THEN ReturnNone ELSE res

NoObject == [exists |-> FALSE, has_station_id |-> FALSE, station_id |-> <<>>]

\* the object MvgApi(station) leaves behind when station() answered res
Construct(res) ==
    [exists |-> TRUE,
     has_station_id |-> res.val.t = "station",
     station_id |-> IF res.val.t = "station" THEN res.val.v.id ELSE <<>>]

(***************************************************************************)
(* The state machine.  Each caller makes one call at a time: the call      *)
(* starts, possibly issues its GET request, the upstream answers, the call *)
(* finishes, and the caller takes the outcome.                             *)
(***************************************************************************)
Callers == {"c1", "c2"}

Queries ==
    {IdUniversitaet,
     IdUniversitaet \o <<"x">>,
     <<" ">> \o IdUniversitaet \o <<" ">>,
     <<"U", "n", "i">>}

TypeChoices == {NoTypes, Types(<<"UBAHN">>), Types(<<"SEV", "TRAM">>)}

NearbyLimits == {-1, 0, 1}

DepartureLimits == {MVGAPI_DEFAULT_LIMIT, 1}

Offsets == {0, 5}

Coordinates == {<<48, 11>>}

Nowhere == <<0, 0>>

\* the calls of the whole public surface
AllCalls ==
    {MkCall("station_async", TRUE, q, FALSE, NoTypes, 0, 0, Nowhere) : q \in Queries}
    \cup {MkCall(op, l, q, FALSE, NoTypes, 0, 0, Nowhere) :
            op \in {"station", "__init__"}, l \in BOOLEAN, q \in Queries}
    \cup {MkCall("valid_station_id", l, q, v, NoTypes, 0, 0, Nowhere) :
            l \in BOOLEAN, q \in Queries, v \in BOOLEAN}
    \cup {MkCall("nearby_async", TRUE, <<>>, FALSE, t, 0, 0, at) :
            t \in TypeChoices, at \in Coordinates}
    \cup {MkCall("nearby", l, <<>>, FALSE, t, 0, 0, at) :
            l \in BOOLEAN, t \in TypeChoices, at \in Coordinates}
    \cup {MkCall("nearby_multi_async", TRUE, <<>>, FALSE, t, n, 0, at) :
            t \in TypeChoices, n \in NearbyLimits, at \in Coordinates}
    \cup {MkCall("nearby_multi", l, <<>>, FALSE, t, n, 0, at) :
            l \in BOOLEAN, t \in TypeChoices, n \in NearbyLimits, at \in Coordinates}
    \cup {MkCall("departures_async", TRUE, q, FALSE, t, n, m, Nowhere) :
            q \in Queries, t \in TypeChoices, n \in DepartureLimits, m \in Offsets}
    \cup {MkCall("departures", l, <<>>, FALSE, t, n, m, Nowhere) :
            l \in BOOLEAN, t \in TypeChoices, n \in DepartureLimits, m \in Offsets}
    \cup {MkCall(op, TRUE, <<>>, FALSE, NoTypes, 0, 0, Nowhere) :
            op \in {"stations_async", "lines_async", "station_ids_async"}}
    \cup {MkCall(op, l, <<>>, FALSE, NoTypes, 0, 0, Nowhere) :
            op \in {"stations", "lines"}, l \in BOOLEAN}

Init ==
    /\ pc = [c \in Callers |-> "idle"]
    /\ call = [c \in Callers |-> NoCall]
    /\ sent = [c \in Callers |-> <<>>]
    /\ resp = [c \in Callers |-> NoResp]
    /\ out = [c \in Callers |-> Pending]
    /\ obj = [c \in Callers |-> NoObject]
    /\ contexts = [fresh |-> 0, worker |-> 0]
    /\ ncalls = [c \in Callers |-> 0]
    /\ counts = [gets |-> 0, validated |-> 0]

\* k is a call of an asynchronous operation that gets past the check of its
\* input (only departures_async has one)
PassesValidation(k) == k.op \in AsyncOps /\ IsPending(Validate(k.op, k))

\* caller c starts call k: the call ends before any request, or issues its
\* request; counts keeps the number of GET requests issued so far and the
\* number of asynchronous calls that got past the check of their input
Begin(c, k) ==
    /\ k.op = "departures" => obj[c].exists
    /\ LET s == Start(k, obj[c])
       IN  /\ pc' = [pc EXCEPT ![c] = IF IsPending(s) THEN "await" ELSE "done"]
           /\ out' = [out EXCEPT ![c] = s]
           /\ sent' = [sent EXCEPT ![c] =
                         IF IsPending(s)
                         THEN <<Request(Coroutine(k.op), CoroutineCall(k, obj[c]))>>
                         ELSE <<>>]
    /\ call' = [call EXCEPT ![c] = k]
    /\ contexts' = [contexts EXCEPT !.fresh =
                      IF RunsFreshLoop(k, obj[c]) THEN @ + 1 ELSE @]
    /\ ncalls' = [ncalls EXCEPT ![c] = @ + 1]
    /\ counts' = [gets |-> counts.gets + Len(sent'[c]),
                  validated |-> counts.validated
                                  + IF PassesValidation(k) THEN 1 ELSE 0]
    /\ UNCHANGED <<resp, obj>>

\* caller c, having no call in progress, starts one of the calls
Call(c, calls) ==
    /\ pc[c] = "idle"
    /\ ncalls[c] < MaxCalls
    /\ \E k \in calls : Begin(c, k)

\* the adapter trying once more when the request failed
AnswerWithRetry(c, r) ==
    IF r.net \in NetFailures /\ Len(sent[c]) < 2
    THEN /\ sent' = [sent EXCEPT ![c] = Append(@, @[1])]
         /\ counts' = [counts EXCEPT !.gets = @ + 1]
         /\ UNCHANGED <<pc, call, resp, out, obj, contexts, ncalls>>
    ELSE /\ out' = [out EXCEPT ![c] = Finish(call[c], obj[c], r)]
         /\ resp' = [resp EXCEPT ![c] = r]
         /\ pc' = [pc EXCEPT ![c] = "done"]
         /\ UNCHANGED <<call, sent, obj, contexts, ncalls, counts>>

\* the upstream answers the request of caller c with r and the call finishes
Answer(c, r) ==
    /\ LET res == AsyncResult(Coroutine(call[c].op), CoroutineCall(call[c], obj[c]), r)
       IN  /\ out' = [out EXCEPT ![c] = Finish(call[c], obj[c], r)]
           /\ obj' = [obj EXCEPT ![c] =
                        IF call[c].op = "__init__" /\ res.kind = "return"
                        THEN Construct(res)
                        ELSE @]
    /\ resp' = [resp EXCEPT ![c] = r]
    /\ pc' = [pc EXCEPT ![c] = "done"]
    /\ UNCHANGED <<call, sent, contexts, ncalls, counts>>

\* the upstream answers the pending request of caller c, with lists of at most
\* n entries
Respond(c, n) ==
    /\ pc[c] = "await"
    /\ \E r \in ResponsesOf(sent[c][1].endpoint, n) : Answer(c, r)

\* caller c takes the outcome and is ready for its next call
Take(c) ==
    /\ pc[c] = "done"
    /\ pc' = [pc EXCEPT ![c] = "idle"]
    /\ call' = [call EXCEPT ![c] = NoCall]
    /\ sent' = [sent EXCEPT ![c] = <<>>]
    /\ resp' = [resp EXCEPT ![c] = NoResp]
    /\ out' = [out EXCEPT ![c] = Pending]
    /\ UNCHANGED <<obj, contexts, ncalls, counts>>

\* one caller working through the whole public surface
Next ==
    \/ Call("c1", AllCalls)
    \/ Respond("c1", MaxItems)
    \/ Take("c1")

Spec == Init /\ [][Next]_vars

(***************************************************************************)
(* Station identifiers, well-formed and not: the identifier check and the  *)
(* operations that start with it, over a set of strings built around the   *)
(* pattern.                                                                *)
(***************************************************************************)
IdItems == 1

IdDigits == {"0", "9"}

Leads == {<<>>, <<" ">>}

Heads == {<<"d", "e", ":">>, <<"d", "e">>}

Trails == {<<>>, <<"x">>, <<" ">>}

\* area parts: runs of up to MaxArea digits, and some holding another character
Areas == SeqsUpTo({"9"}, MaxArea) \cup {<<"0", "x">>, <<"x", "0", "0">>, <<"0", "9", " ">>}

StationIds ==
    {lead \o head \o area \o <<":">> \o num \o trail :
        lead \in Leads, head \in Heads, area \in Areas,
        num \in SeqsUpTo(IdDigits, MaxNum), trail \in Trails}
    \cup {<<>>, <<"U", "n", "i">>}

IdCalls ==
    {MkCall("valid_station_id", FALSE, q, v, NoTypes, 0, 0, Nowhere) :
        q \in StationIds, v \in BOOLEAN}
    \cup {MkCall("departures_async", TRUE, q, FALSE, NoTypes,
                 MVGAPI_DEFAULT_LIMIT, 0, Nowhere) : q \in StationIds}

NextIds ==
    \/ Call("c1", IdCalls)
    \/ Respond("c1", IdItems)
    \/ Take("c1")

SpecIds == Init /\ [][NextIds]_vars

(***************************************************************************)
(* Two callers inside a running event loop: each awaits an asynchronous    *)
(* operation or calls a blocking one.                                      *)
(***************************************************************************)
LoopItems == 1

LoopQueries == {IdUniversitaet, <<"U", "n", "i">>}

LoopCalls ==
    {MkCall(op, TRUE, q, FALSE, NoTypes, 0, 0, Nowhere) :
        op \in {"station_async", "station"}, q \in LoopQueries}
    \cup {MkCall(op, TRUE, <<>>, FALSE, t, n, 0, at) :
            op \in {"nearby", "nearby_multi"}, t \in {NoTypes, Types(<<"UBAHN">>)},
            n \in {-1}, at \in Coordinates}

NextLoop ==
    \E c \in Callers :
        \/ Call(c, LoopCalls)
        \/ Respond(c, LoopItems)
        \/ Take(c)

SpecLoop == Init /\ [][NextLoop]_vars

(***************************************************************************)
(* Payloads of every shape: the asynchronous operations that read a        *)
(* payload, each answered with status 200 and JSON, the decoded value      *)
(* being no list or a list of entries that may lack members, name unknown  *)
(* transport types or be no objects.                                       *)
(***************************************************************************)
ParseItems == 2

\* entries of a departure board, also those lacking one of the members read
DepartureShapes ==
    DepartureEntries \cup {Without(DepartureU3, f) : f \in DepartureFields}

\* entries of a nearby search, also one advertising only an unknown type
NearbyShapes ==
    NearbyEntries
    \cup {[globalId |-> IdUniversitaet, name |-> "Universitaet", place |-> "Muenchen",
           latitude |-> 48, longitude |-> 11, transportTypes |-> <<"RUFTAXI">>]}

ShapesOf(ep) ==
    CASE ep = "FIB_LOCATION" -> LocationEntries
      [] ep = "FIB_NEARBY" -> NearbyShapes
      [] ep = "FIB_DEPARTURE" -> DepartureShapes

\* the answers that pass the transport adapter, lists of at most n entries
ParseResponses(ep, n) ==
    {[net |-> "ok", status |-> 200, ctype |-> "application/json", body |-> b] :
        b \in {NonList} \cup {JsonList(items) : items \in SeqsUpTo(ShapesOf(ep), n)}}

\* the upstream answers the pending request of caller c with a decoded payload
RespondParse(c, n) ==
    /\ pc[c] = "await"
    /\ \E r \in ParseResponses(sent[c][1].endpoint, n) : Answer(c, r)

ParseLimits == {-2, -1, 0, 1, 2}

\* transport_types: None, some types, or the list TransportType.all() returns
ParseTypes == TypeChoices \cup {Types(TransportType_all)}

\* station ids, one of them padded with blanks, and a name
ParseQueries ==
    {IdUniversitaet, IdHauptbahnhof, <<"d", "e", ":", "9", "9", ":", "0">>,
     <<" ">> \o IdUniversitaet \o <<" ">>, <<"U", "n", "i">>}

ParseCalls ==
    {MkCall("station_async", TRUE, q, FALSE, NoTypes, 0, 0, Nowhere) :
        q \in ParseQueries}
    \cup {MkCall("nearby_async", TRUE, <<>>, FALSE, t, 0, 0, at) :
            t \in ParseTypes, at \in Coordinates}
    \cup {MkCall("nearby_multi_async", TRUE, <<>>, FALSE, t, n, 0, at) :
            t \in ParseTypes, n \in ParseLimits, at \in Coordinates}
    \cup {MkCall("nearby", FALSE, <<>>, FALSE, t, 0, 0, at) :
            t \in ParseTypes, at \in Coordinates}
    \cup {MkCall("nearby_multi", FALSE, <<>>, FALSE, t, -1, 0, at) :
            t \in ParseTypes, at \in Coordinates}
    \cup {MkCall("departures_async", TRUE, IdUniversitaet, FALSE, t,
                 MVGAPI_DEFAULT_LIMIT, 0, Nowhere) : t \in ParseTypes}

NextParse ==
    \/ Call("c1", ParseCalls)
    \/ RespondParse("c1", ParseItems)
    \/ Take("c1")

SpecParse == Init /\ [][NextParse]_vars

(***************************************************************************)
(* Timestamps: departures_async answered with departures whose times run   *)
(* from 0 to values beyond 2^53 milliseconds.                              *)
(***************************************************************************)
TimeItems == 1

\* timestamps in milliseconds:
\*   Big(99451, 24, 13671584) is 1668524580000
\*   Big(99451, 24, 13672583) is 1668524580999
\*   Big(1048575999, 24, 16777215) is 17592186044415999
\*   Big(1048576000, 24, 0) is 17592186044416000
\*   Big(1048576000, 24, 499) is 17592186044416499
\*   Big(1048576000, 24, 999) is 17592186044416999
Timestamps ==
    {Bits(0), Bits(999), Bits(1000), Bits(120999),
     Big(99451, 24, 13671584),
     Big(99451, 24, 13672583),
     Big(1048575999, 24, 16777215),
     Big(1048576000, 24, 0),
     Big(1048576000, 24, 499),
     Big(1048576000, 24, 999)}

TimedDepartures ==
    {[DepartureU3 EXCEPT !.realtimeDepartureTime = t, !.plannedDepartureTime = p] :
        t \in Timestamps, p \in Timestamps}

\* the upstream answers the pending request of caller c with departures
RespondTimed(c, n) ==
    /\ pc[c] = "await"
    /\ \E items \in SeqsUpTo(TimedDepartures, n) :
          Answer(c, [net |-> "ok", status |-> 200, ctype |-> "application/json",
                     body |-> JsonList(items)])

TimeCalls ==
    {MkCall("departures_async", TRUE, IdUniversitaet, FALSE, NoTypes,
            MVGAPI_DEFAULT_LIMIT, 0, Nowhere)}

NextTime ==
    \/ Call("c1", TimeCalls)
    \/ RespondTimed("c1", TimeItems)
    \/ Take("c1")

SpecTime == Init /\ [][NextTime]_vars

(***************************************************************************)
(* Sequences of calls to the asynchronous operations only, each answered   *)
(* by any response or failure of the upstream.                             *)
(***************************************************************************)
AsyncCalls == {k \in AllCalls : k.op \in AsyncOps}

NextAsync ==
    \/ Call("c1", AsyncCalls)
    \/ Respond("c1", MaxItems)
    \/ Take("c1")

SpecAsync == Init /\ [][NextAsync]_vars

(***************************************************************************)
(* The claims.                                                             *)
(***************************************************************************)
Finished(c) == pc[c] = "done"

\* the asynchronous operation of the same name as a blocking one
AsyncCounterpart(op) ==
    CASE op = "station" -> "station_async"
      [] op = "nearby" -> "nearby_async"
      [] op = "nearby_multi" -> "nearby_multi_async"
      [] op = "stations" -> "stations_async"
      [] op = "lines" -> "lines_async"
      [] op = "departures" -> "departures_async"

\* the blocking operations that go straight to asyncio.run
StaticBlockingOps == {"station", "nearby", "nearby_multi", "stations", "lines"}

\* C1: departures_async with a station id that is not well-formed raises
\* ValueError, and no request has been issued when it does.
C1_IllFormedIdRaisesValueErrorBeforeRequest ==
    \A c \in Callers :
        (pc[c] # "idle" /\ call[c].op = "departures_async"
                        /\ ~re_fullmatch(call[c].query))
            => /\ sent[c] = <<>>
               /\ Finished(c) => IsRaise(out[c], "ValueError")

\* C2: valid_station_id without existence validation returns True exactly for
\* the well-formed ids, False for every other string, and issues no request.
C2_ValidStationIdIffWellFormed ==
    \A c \in Callers :
        (Finished(c) /\ call[c].op = "valid_station_id" /\ ~call[c].validate)
            => /\ SameOutcome(out[c], Return("bool", re_fullmatch(call[c].query)))
               /\ sent[c] = <<>>

\* C3: a constructor that returns normally leaves an object holding the id of
\* the station the lookup resolved; a lookup that finds no station makes the
\* construction fail, so departures() never runs on an object without
\* station_id.
C3_ConstructedObjectHoldsStationId ==
    \A c \in Callers :
        /\ (Finished(c) /\ call[c].op = "__init__" /\ IsReturn(out[c]))
               => obj[c].exists /\ obj[c].has_station_id
        /\ (Finished(c) /\ call[c].op = "departures")
               => ~IsRaise(out[c], "AttributeError")

\* C4: a blocking operation called inside a running event loop completes like
\* its asynchronous operation: one request, the same value or the same error.
C4_BlockingInsideLoopEquivalent ==
    \A c \in Callers :
        (Finished(c) /\ call[c].op \in StaticBlockingOps /\ call[c].inloop)
            => /\ Len(sent[c]) = 1
               /\ SameOutcome(out[c],
                              AsyncResult(AsyncCounterpart(call[c].op), call[c], resp[c]))

\* C5: once a blocking call has gone through the fallback path, exactly one
\* background worker context has been created.
C5_ExactlyOneWorker ==
    \A c \in Callers :
        (Finished(c) /\ call[c].op \in StaticBlockingOps /\ call[c].inloop)
            => contexts.worker = 1

\* C6: two blocking calls made concurrently inside a running event loop both
\* complete, each with the result of its own operation and arguments.
C6_ConcurrentBlockingCallsIndependent ==
    (\A c \in Callers :
        Finished(c) /\ call[c].op \in StaticBlockingOps /\ call[c].inloop)
        => \A c \in Callers :
            /\ sent[c] = <<Request(AsyncCounterpart(call[c].op), call[c])>>
            /\ SameOutcome(out[c],
                           AsyncResult(AsyncCounterpart(call[c].op), call[c], resp[c]))

\* C7: a blocking operation called outside any event loop issues the request
\* of, and returns or raises what, the asynchronous operation of the same name
\* does; lines() returns what the line directory delivered.
C7_BlockingEqualsAsyncCounterpart ==
    \A c \in Callers :
        (Finished(c) /\ ~call[c].inloop /\ resp[c].net # "none"
            /\ call[c].op \in StaticBlockingOps \cup {"departures"})
            => LET aop == AsyncCounterpart(call[c].op)
                   k == CoroutineCall(call[c], obj[c])
               IN  /\ sent[c] = <<Request(aop, k)>>
                   /\ SameOutcome(out[c], AsyncResult(aop, k, resp[c]))

C9_NetworkFailureIsMvgApiError ==
    \A c \in Callers :
        (Finished(c) /\ resp[c].net \in NetFailures)
            => IsRaise(out[c], "MvgApiError")

\* C10: a 200 application/json response whose body is no JSON raises
\* MvgApiError; departures_async never reports it as ValueError.
C10_UndecodableBodyIsMvgApiError ==
    \A c \in Callers :
        (Finished(c) /\ resp[c].net = "ok" /\ resp[c].status = 200
            /\ resp[c].ctype = "application/json" /\ ~resp[c].body.decodable)
            => /\ IsRaise(__api(resp[c]), "MvgApiError")
               /\ call[c].op = "departures_async" => out[c].exc \notin ValueErrors

\* entry i of the decoded list lacks one of the members departures_async reads
LacksDepartureField(items, i) == \E f \in DepartureFields : f \notin DOMAIN items[i]

\* the request of caller c was answered at the transport level
Decoded(c) ==
    /\ Finished(c)
    /\ resp[c].net = "ok" /\ resp[c].status = 200
    /\ resp[c].ctype = "application/json" /\ resp[c].body.decodable

\* C11: departures_async answered with a payload that is no list, or a list
\* with an entry lacking an expected member, raises MvgApiError: neither
\* ValueError nor a partial list reaches the caller.
C11_MissingFieldOrNonListIsMvgApiError ==
    \A c \in Callers :
        (Decoded(c) /\ call[c].op = "departures_async"
            /\ (~resp[c].body.islist
                 \/ \E i \in 1..Len(resp[c].body.items) :
                        LacksDepartureField(resp[c].body.items, i)))
            => IsRaise(out[c], "MvgApiError")

\* a complete entry followed by one lacking "messages" ended in MvgApiError
C11_Witness ==
    \E c \in Callers :
        /\ Decoded(c) /\ call[c].op = "departures_async"
        /\ resp[c].body.islist /\ Len(resp[c].body.items) = 2
        /\ ~LacksDepartureField(resp[c].body.items, 1)
        /\ resp[c].body.items[1].transportType \in TransportTypeNames
        /\ "messages" \notin DOMAIN resp[c].body.items[2]
        /\ IsRaise(out[c], "MvgApiError")

\* the operations that read the entries of a decoded payload
ParsingOps == {"station_async", "nearby_multi_async", "departures_async"}

\* C12: station_async, nearby_multi_async and departures_async, answered at
\* the transport level, let no exception but MvgApiError escape, and raise
\* MvgApiError when the first element of the list is no JSON object.
C12_WrongShapeIsMvgApiError ==
    \A c \in Callers :
        (Decoded(c) /\ call[c].op \in ParsingOps)
            => /\ IsReturn(out[c]) \/ IsRaise(out[c], "MvgApiError")
               /\ (resp[c].body.islist /\ Len(resp[c].body.items) > 0
                      /\ ~IsDict(resp[c].body.items[1]))
                    => IsRaise(out[c], "MvgApiError")

\* entry i of the decoded list names a transport type outside the enumeration
NamesUnknownType(ep, items, i) ==
    /\ IsDict(items[i])
    /\ \/ /\ ep = "FIB_DEPARTURE"
          /\ "transportType" \in DOMAIN items[i]
          /\ items[i].transportType \notin TransportTypeNames
       \/ /\ ep = "FIB_NEARBY"
          /\ "transportTypes" \in DOMAIN items[i]
          /\ \E j \in 1..Len(items[i].transportTypes) :
                items[i].transportTypes[j] \notin TransportTypeNames

\* C13: a departure board or a nearby response naming a transport type outside
\* the enumeration, in any of its entries, raises MvgApiError.
C13_UnknownTransportTypeIsMvgApiError ==
    \A c \in Callers :
        (Decoded(c) /\ resp[c].body.islist
            /\ call[c].op \in {"departures_async", "nearby_multi_async", "nearby_async"}
            /\ \E i \in 1..Len(resp[c].body.items) :
                  NamesUnknownType(sent[c][1].endpoint, resp[c].body.items, i))
            => IsRaise(out[c], "MvgApiError")

\* the call of caller c failed to reach the service: a failure of the request,
\* a status other than 200 or a content type other than JSON
ReachFailure(c) ==
    /\ Finished(c) /\ out[c].kind = "raise"
    /\ \/ resp[c].net \in NetFailures
       \/ resp[c].net = "ok" /\ resp[c].status # 200
       \/ resp[c].net = "ok" /\ resp[c].ctype # "application/json"

\* the call of caller c received its payload and failed to parse it
ParseFailure(c) == Decoded(c) /\ out[c].kind = "raise"

\* C14: a failure to reach the service and a failure to parse a received
\* payload are reported as different error kinds.
C14_ReachAndParseFailuresDiffer ==
    \A c \in Callers : \A d \in Callers :
        (ReachFailure(c) /\ ParseFailure(d)) => out[c].exc # out[d].exc

\* the decoded list of caller c holds locations, none of them of type STATION
NoStationEntry(c) ==
    \A i \in 1..Len(resp[c].body.items) :
        /\ IsDict(resp[c].body.items[i])
        /\ "type" \in DOMAIN resp[c].body.items[i]
        /\ resp[c].body.items[i].type # "STATION"

\* the decoded list of caller c holds locations, none of them advertising one
\* of the requested transport types
NoLocationMatches(c) ==
    \A i \in 1..Len(resp[c].body.items) :
        /\ IsDict(resp[c].body.items[i])
        /\ "transportTypes" \in DOMAIN resp[c].body.items[i]
        /\ ~AnyTypeIn(TypesOrAll(call[c].types), resp[c].body.items[i].transportTypes)

\* nearby_async returns None, nearby_multi_async an empty list, when no location
\* matches; departures_async returns an empty list for an empty list
NotFoundElsewhere(c) ==
    /\ (call[c].op = "nearby_async" /\ NoLocationMatches(c))
          => SameOutcome(out[c], ReturnNone)
    /\ (call[c].op = "nearby_multi_async" /\ NoLocationMatches(c))
          => SameOutcome(out[c], Return("stations", <<>>))
    /\ (call[c].op = "departures_async" /\ Len(resp[c].body.items) = 0)
          => SameOutcome(out[c], Return("departures", <<>>))

\* C15 as stated: station_async returns None whenever the list is empty or holds
\* no entry of type STATION, and the other operations return None or an empty
\* list when nothing matches; none of these cases raises.
C15_NotFoundIsNoneOrEmpty ==
    \A c \in Callers :
        (Decoded(c) /\ resp[c].body.islist)
            => /\ (call[c].op = "station_async"
                      /\ (Len(resp[c].body.items) = 0 \/ NoStationEntry(c)))
                    => SameOutcome(out[c], ReturnNone)
               /\ NotFoundElsewhere(c)

\* C15 amended: station_async returns None when the list is empty and, for a
\* query that valid_station_id rejects, when the list holds no entry of type
\* STATION; the other operations as stated.
C15_NotFoundIsNoneOrEmptyByName ==
    \A c \in Callers :
        (Decoded(c) /\ resp[c].body.islist)
            => /\ (call[c].op = "station_async"
                      /\ (Len(resp[c].body.items) = 0
                          \/ (NoStationEntry(c)
                              /\ ~valid_station_id(strip(call[c].query)))))
                    => SameOutcome(out[c], ReturnNone)
               /\ NotFoundElsewhere(c)

\* a search by name answered with an address only returned None
C15_Witness ==
    \E c \in Callers :
        /\ Decoded(c) /\ resp[c].body.islist
        /\ call[c].op = "station_async"
        /\ ~valid_station_id(strip(call[c].query))
        /\ Len(resp[c].body.items) = 1 /\ NoStationEntry(c)
        /\ SameOutcome(out[c], ReturnNone)

Min(a, b) == IF a < b THEN a ELSE b

\* s is a prefix of t
IsPrefix(s, t) == Len(s) <= Len(t) /\ \A i \in 1..Len(s) : s[i] = t[i]

\* the set of the elements of a sequence
Elements(s) == {s[i] : i \in 1..Len(s)}

\* the requested transport types of caller c as a set of names
RequestedTypes(c) ==
    IF call[c].types.given THEN Elements(call[c].types.list)
    ELSE TransportTypeNames \ {"SEV"}

\* the positions of the locations of the decoded list of caller c whose
\* advertised transport types intersect the requested ones
Matching(c) ==
    {i \in 1..Len(resp[c].body.items) :
        Elements(resp[c].body.items[i].transportTypes) \cap RequestedTypes(c) # {}}

MatchingStations(c) == Cardinality(Matching(c))

\* what nearby_multi_async returns for the call and response of caller c when
\* the limit is -1
Unlimited(c) == nearby_multi_async(call[c].types, -1, resp[c])

\* C16: nearby_multi_async with limit N >= 0 returns the first min(N, number of
\* matching stations) stations of the list it returns with limit -1, and with
\* a negative limit the whole list of matching stations.
C16_LimitTakesPrefix ==
    \A c \in Callers :
        (Decoded(c) /\ call[c].op = "nearby_multi_async" /\ IsReturn(out[c]))
            => /\ IsReturn(Unlimited(c))
               /\ Len(Unlimited(c).val.v) = MatchingStations(c)
               /\ IsPrefix(out[c].val.v, Unlimited(c).val.v)
               /\ Len(out[c].val.v) =
                     IF call[c].limit >= 0
                     THEN Min(call[c].limit, MatchingStations(c))
                     ELSE MatchingStations(c)

\* two locations matched and limit 1 returned the first of them only
C16_Witness ==
    \E c \in Callers :
        /\ Decoded(c) /\ call[c].op = "nearby_multi_async" /\ IsReturn(out[c])
        /\ call[c].limit = 1
        /\ MatchingStations(c) = 2
        /\ Len(out[c].val.v) = 1
        /\ out[c].val.v[1].id = resp[c].body.items[1].globalId

\* the first location, in upstream order, that intersects the requested types
FirstMatch(c) ==
    resp[c].body.items[CHOOSE i \in Matching(c) : \A j \in Matching(c) : i <= j]

\* C17: nearby_async returns the record of the first location, in upstream
\* order, whose transport types intersect the requested ones, which is the
\* first element of what nearby_multi_async returns with limit -1, and None
\* when no location intersects.
C17_NearbyReturnsFirstMatch ==
    \A c \in Callers :
        (Decoded(c) /\ call[c].op = "nearby_async" /\ IsReturn(out[c]))
            => IF Matching(c) = {}
               THEN SameOutcome(out[c], ReturnNone)
               ELSE /\ out[c].val.t = "station"
                    /\ out[c].val.v.id = FirstMatch(c).globalId
                    /\ out[c].val.v.name = FirstMatch(c).name
                    /\ out[c].val.v.place = FirstMatch(c).place
                    /\ IsReturn(Unlimited(c))
                    /\ out[c].val.v = Unlimited(c).val.v[1]

\* the first location did not match and the record of the second was returned
C17_Witness ==
    \E c \in Callers :
        /\ Decoded(c) /\ call[c].op = "nearby_async" /\ IsReturn(out[c])
        /\ Matching(c) = {2}
        /\ resp[c].body.items[1].globalId # resp[c].body.items[2].globalId
        /\ out[c].val.t = "station"
        /\ out[c].val.v.id = resp[c].body.items[2].globalId

\* the seven variants other than SEV, in the order of their declaration
SevenTypes == <<"BAHN", "SBAHN", "UBAHN", "TRAM", "BUS", "REGIONAL_BUS", "SCHIFF">>

\* the operations that take a transport-type filter
FilteringOps ==
    {"nearby_async", "nearby_multi_async", "nearby", "nearby_multi", "departures_async"}

\* the call of caller c with the other way of asking for all types: the list
\* of the seven variants in place of None, None in place of that list
OtherWayOfAll(c) ==
    [call[c] EXCEPT !.types = IF call[c].types.given THEN NoTypes ELSE Types(SevenTypes)]

\* C18: a call without transport types issues the request, and returns or
\* raises what, the same call with TransportType.all() does, and the other way
\* round; the filter is the seven variants without SEV.
C18_NoneIsAllWithoutSEV ==
    \A c \in Callers :
        (Finished(c) /\ resp[c].net # "none" /\ call[c].op \in FilteringOps
            /\ (~call[c].types.given \/ call[c].types.list = SevenTypes))
            => /\ sent[c] = <<Request(Coroutine(call[c].op), OtherWayOfAll(c))>>
               /\ SameOutcome(out[c],
                     AsyncResult(Coroutine(call[c].op), OtherWayOfAll(c), resp[c]))
               /\ call[c].op = "departures_async"
                    => sent[c][1].args.transportTypes = Str(join(SevenTypes))
               /\ (call[c].op = "nearby_multi_async" /\ IsReturn(out[c])
                      /\ call[c].limit < 0)
                    => Len(out[c].val.v) =
                         Cardinality({i \in 1..Len(resp[c].body.items) :
                            Elements(resp[c].body.items[i].transportTypes)
                                \cap Elements(SevenTypes) # {}})

\* without transport types, a location served by SEV only was left out and one
\* served by tram was returned
C18_Witness ==
    \E c \in Callers :
        /\ Decoded(c) /\ call[c].op = "nearby_multi_async" /\ IsReturn(out[c])
        /\ ~call[c].types.given /\ call[c].limit < 0
        /\ Len(resp[c].body.items) = 2
        /\ resp[c].body.items[1].transportTypes = <<"SEV">>
        /\ resp[c].body.items[2].transportTypes = <<"TRAM">>
        /\ Len(out[c].val.v) = 1

\* the first entry of the decoded list of caller c is an object with the
\* members a lookup by id reads
FirstEntryComplete(c) ==
    /\ resp[c].body.islist /\ Len(resp[c].body.items) > 0
    /\ IsDict(resp[c].body.items[1])
    /\ {"name", "place", "latitude", "longitude"} \subseteq DOMAIN resp[c].body.items[1]

\* C19: station_async with a well-formed station id, answered with a non-empty
\* list, returns a record whose id is that id unchanged, whatever globalId the
\* entries carry.
C19_IdRoundTrip ==
    \A c \in Callers :
        (Decoded(c) /\ call[c].op = "station_async" /\ re_fullmatch(call[c].query)
            /\ FirstEntryComplete(c))
            => /\ IsReturn(out[c]) /\ out[c].val.t = "station"
               /\ out[c].val.v.id = call[c].query

\* a lookup by id answered with an entry of another station returned the id
\* that was asked for
C19_Witness ==
    \E c \in Callers :
        /\ Decoded(c) /\ call[c].op = "station_async" /\ FirstEntryComplete(c)
        /\ call[c].query = IdUniversitaet
        /\ "globalId" \in DOMAIN resp[c].body.items[1]
        /\ resp[c].body.items[1].globalId = IdHauptbahnhof
        /\ IsReturn(out[c]) /\ out[c].val.t = "station"
        /\ out[c].val.v.id = IdUniversitaet

\* how often name n occurs in the sequence s
Occurrences(s, n) == Cardinality({i \in 1..Len(s) : s[i] = n})

C21_SecondsAreTruncatedMilliseconds ==
    \A c \in Callers :
        (Decoded(c) /\ call[c].op = "departures_async" /\ IsReturn(out[c]))
            => \A i \in 1..Len(out[c].val.v) :
                  /\ out[c].val.v[i].time =
                        MsFloorDiv(resp[c].body.items[i].realtimeDepartureTime)
                  /\ out[c].val.v[i].planned =
                        MsFloorDiv(resp[c].body.items[i].plannedDepartureTime)

\* C22: in a sequence of calls to the asynchronous operations, a call that
\* passes the check of its input has issued exactly one GET request, also once
\* that request has failed, a call that does not pass has issued none, and the
\* number of requests issued so far equals the number of calls that passed,
\* so a repeated call issues a request of its own.
C22_OneRequestPerValidatedCall ==
    /\ counts.gets = counts.validated
    /\ \A c \in Callers :
          pc[c] # "idle" =>
              Len(sent[c]) = IF PassesValidation(call[c]) THEN 1 ELSE 0

\* the second call has ended on a failed request, after two requests in all
C22_Witness ==
    /\ Finished("c1")
    /\ ncalls["c1"] = 2
    /\ resp["c1"].net \in NetFailures
    /\ counts = [gets |-> 2, validated |-> 2]

\* C23: valid_station_id(id, validate_existance=True), called outside a running
\* event loop: for an id that is not well-formed it returns False and no
\* request is issued; for a well-formed id it issues one request for the id
\* list, returns True exactly when the id is in the list received, and raises
\* MvgApiError when the payload received is not a list.
C23_ExistenceCheckOnlyForWellFormedIds ==
    \A c \in Callers :
        (pc[c] # "idle" /\ call[c].op = "valid_station_id"
                        /\ call[c].validate /\ ~call[c].inloop)
            => IF ~re_fullmatch(call[c].query)
               THEN /\ sent[c] = <<>>
                    /\ Finished(c) => SameOutcome(out[c], Return("bool", FALSE))
               ELSE /\ Len(sent[c]) = 1
                    /\ sent[c][1].endpoint = "ZDM_STATION_IDS"
                    /\ (Decoded(c) /\ resp[c].body.islist)
                          => SameOutcome(out[c],
                                 Return("bool", call[c].query \in Elements(resp[c].body.items)))
                    /\ (Decoded(c) /\ ~resp[c].body.islist)
                          => IsRaise(out[c], "MvgApiError")

\* an entry of the departure board with every member departures_async reads
\* and a transport-type code of the enumeration
WellFormedDeparture(e) ==
    /\ DepartureFields \subseteq DOMAIN e
    /\ e.transportType \in TransportTypeNames

\* C24: departures_async answered with a list of n well-formed entries returns
\* n records whatever limit and offset are, the i-th built from the i-th entry:
\* line, destination, cancelled and messages as received, type and icon the
\* display name and icon of the entry's transport-type code.
C24_DeparturesKeepUpstreamList ==
    \A c \in Callers :
        (/\ Decoded(c) /\ call[c].op = "departures_async"
         /\ resp[c].body.islist
         /\ \A i \in 1..Len(resp[c].body.items) :
               WellFormedDeparture(resp[c].body.items[i]))
            => /\ IsReturn(out[c])
               /\ Len(out[c].val.v) = Len(resp[c].body.items)
               /\ \A i \in 1..Len(resp[c].body.items) :
                     LET e == resp[c].body.items[i]
                         d == out[c].val.v[i]
                     IN  /\ d.line = e.label
                         /\ d.destination = e.destination
                         /\ d.cancelled = e.cancelled
                         /\ d.messages = e.messages
                         /\ d.type = TransportTypeByName(e.transportType).value[1]
                         /\ d.icon = TransportTypeByName(e.transportType).value[2]

\* two departures answered to a call with limit 1 and an offset, the later one
\* first and the second one cancelled: two records come back
C24_Witness ==
    /\ Decoded("c1") /\ call["c1"].op = "departures_async"
    /\ call["c1"].limit = 1 /\ call["c1"].offset = 5
    /\ resp["c1"].body.islist /\ Len(resp["c1"].body.items) = 2
    /\ \A i \in 1..2 : WellFormedDeparture(resp["c1"].body.items[i])
    /\ resp["c1"].body.items[1] = DepartureU3
    /\ resp["c1"].body.items[2].cancelled
    /\ IsReturn(out["c1"]) /\ Len(out["c1"].val.v) = 2

\* the names with a comma between each two neighbours
CommaJoined(names) ==
    [i \in 1..(2 * Len(names) - 1) |->
        IF i % 2 = 1 THEN names[(i + 1) \div 2] ELSE ","]

\* the request the claim describes for station id id and the arguments of k
CarriesDepartureParameters(request, id, k) ==
    /\ request.base = "FIB" /\ request.endpoint = "FIB_DEPARTURE"
    /\ {"globalId", "limit", "offsetInMinutes", "transportTypes"}
           \subseteq DOMAIN request.args
    /\ request.args["globalId"] = Str(id)
    /\ request.args["limit"] = Num(k.limit)
    /\ request.args["offsetInMinutes"] = Num(k.offset)
    /\ request.args["transportTypes"] =
           Str(CommaJoined(IF k.types.given THEN k.types.list ELSE SevenTypes))

\* C25: departures_async with a well-formed station id issues one request, to
\* the departure endpoint, carrying globalId = the id passed, limit and
\* offsetInMinutes = the caller's limit and offset, and transportTypes = the
\* names of the requested types joined by commas in the order given;
\* departures() on an object outside a running loop issues that request with
\* the object's station_id.
C25_DepartureRequestParameters ==
    \A c \in Callers :
        /\ (pc[c] # "idle" /\ call[c].op = "departures_async"
                           /\ re_fullmatch(call[c].query))
              => /\ Len(sent[c]) = 1
                 /\ CarriesDepartureParameters(sent[c][1], call[c].query, call[c])
        /\ (pc[c] # "idle" /\ call[c].op = "departures" /\ ~call[c].inloop
                           /\ obj[c].has_station_id
                           /\ re_fullmatch(obj[c].station_id))
              => /\ Len(sent[c]) = 1
                 /\ CarriesDepartureParameters(sent[c][1], obj[c].station_id, call[c])

\* departures(1, 5, [SEV, TRAM]) on an object has issued its request
C25_Witness ==
    /\ pc["c1"] = "await" /\ call["c1"].op = "departures" /\ ~call["c1"].inloop
    /\ obj["c1"].has_station_id
    /\ call["c1"].limit = 1 /\ call["c1"].offset = 5
    /\ call["c1"].types = Types(<<"SEV", "TRAM">>)
    /\ Len(sent["c1"]) = 1
    /\ sent["c1"][1].args["globalId"] = Str(obj["c1"].station_id)

\* C26: no request carries a parameter whose value is null: the dictionary of
\* parameters handed to __api has a value for every key.
C26_NoNullParameters ==
    \A c \in Callers :
        \A i \in 1..Len(sent[c]) :
            \A key \in DOMAIN sent[c][i].args : sent[c][i].args[key] # Null

\* C27: every parameter name of a request is one of the names the Endpoint
\* enumeration lists for the endpoint the request goes to.
C27_ParameterNamesFromRegistry ==
    \A c \in Callers :
        \A i \in 1..Len(sent[c]) :
            DOMAIN sent[c][i].args
                \subseteq Elements(Endpoint[sent[c][i].endpoint].params)

\* record d has the id, name, place, latitude and longitude of entry e
TakenFrom(d, e) ==
    /\ {"globalId", "name", "place", "latitude", "longitude"} \subseteq DOMAIN e
    /\ d.id = e.globalId /\ d.name = e.name /\ d.place = e.place
    /\ d.latitude = e.latitude /\ d.longitude = e.longitude

\* C28: the record station_async returns for a free-text query, and every
\* record nearby_multi_async returns, has the latitude and longitude of the
\* upstream entry its id, name and place come from, wherever that entry is in
\* the upstream list.
C28_CoordinatesOfTheSameEntry ==
    \A c \in Callers :
        /\ (/\ Decoded(c) /\ call[c].op = "station_async"
             /\ ~valid_station_id(strip(call[c].query))
             /\ IsReturn(out[c]) /\ out[c].val.t = "station")
              => \E i \in 1..Len(resp[c].body.items) :
                     TakenFrom(out[c].val.v, resp[c].body.items[i])
        /\ (/\ Decoded(c) /\ call[c].op = "nearby_multi_async"
             /\ IsReturn(out[c]))
              => \A j \in 1..Len(out[c].val.v) :
                     \E i \in 1..Len(resp[c].body.items) :
                         TakenFrom(out[c].val.v[j], resp[c].body.items[i])

====
